---- MODULE Spec2Model ----
(***************************************************************************)
(* The CTF pallet (pallets/ctf/src/lib.rs) and the CheckNonce transaction  *)
(* extension (runtime/src/check_nonce.rs) as one state machine.            *)
(*                                                                         *)
(* An extrinsic goes through validate -> prepare -> dispatch ->            *)
(* post_dispatch_details, one extrinsic at a time; the transaction pool    *)
(* may run validate alone on any pending extrinsic at any time; the block  *)
(* hook on_initialize runs between extrinsics.                             *)
(***************************************************************************)
EXTENDS Integers, Sequences, FiniteSets, TLC

(***************************************************************************)
(* Bounds of the model and constants of the program.                       *)
(***************************************************************************)
\* lib.rs:126  `LotteryEntryCount::<T>::get() >= 20`
LotteryThreshold == 20
\* lib.rs:230  `let difficulty = 25u32;`
LotteryDifficulty == 25
\* lib.rs:149  `(20..=256).contains(&difficulty)`
MinDifficulty == 20
MaxDifficulty == 256
\* accounts beyond the lottery threshold
ExtraIds == 1
\* extrinsics an account may have included (its nonce never exceeds this)
MaxNonce == 2

NoSigner == 0
NumIds == LotteryThreshold + ExtraIds
Ids == 1 .. NumIds
\* The account that submits every kind of extrinsic with every input.
Players == {1}
\* The accounts that only enter the lottery, with a valid proof.
Fillers == Ids \ Players

\* difficulties an extrinsic may carry: below the accepted range, its lower
\* end, the first whose award shifts by the full width of u64, and above it
Difficulties == {19, 20, 84, 257}
\* `work` values, each named by the byte that tells it from the others
Works == 0 .. 1
\* block numbers handed to on_initialize
BlockNumbers == {1, 2}
\* the accounts whose extrinsics the nonce specification follows step by step
Signers == {1, 2}

None == "None"

(***************************************************************************)
(* u64 arithmetic on four 16-bit limbs, least significant first.           *)
(***************************************************************************)
Limb == 65536
Pow2(n) == 2 ^ n
U64(n) == <<n % Limb, n \div Limb, 0, 0>>
U64Max == <<Limb - 1, Limb - 1, Limb - 1, Limb - 1>>

\* u64::saturating_add
saturating_add(a, b) ==
    LET s1 == a[1] + b[1]
        s2 == a[2] + b[2] + (s1 \div Limb)
        s3 == a[3] + b[3] + (s2 \div Limb)
        s4 == a[4] + b[4] + (s3 \div Limb)
    IN  IF s4 \div Limb > 0 THEN U64Max
        ELSE <<s1 % Limb, s2 % Limb, s3 % Limb, s4 % Limb>>

\* `1u64 << s` for a u32 s: without overflow checks the shift amount is
\* taken modulo the width of the left operand
Shl1U64(s) ==
    LET k == s % 64
    IN  [i \in 1 .. 4 |-> IF i = (k \div 16) + 1 THEN Pow2(k % 16) ELSE 0]

\* `1u64 << s` with overflow checks: a shift by the width or more panics
ShlOverflows(s) == s >= 64

\* a < b on u64: decided by the most significant limb that differs
U64Less(a, b) ==
    \E i \in 1 .. 4 : a[i] < b[i] /\ \A j \in (i + 1) .. 4 : a[j] = b[j]

(***************************************************************************)
(* SCALE encoding, hashing and 256-bit comparison.                         *)
(***************************************************************************)
\* u32::encode: four bytes, little-endian
EncodeU32(n) ==
    <<n % 256, (n \div 256) % 256, (n \div 65536) % 256, (n \div 16777216) % 256>>
\* AccountId::encode: the bytes of the account, here the one byte that
\* tells the accounts apart
EncodeAccount(who) == <<who>>
\* Hash::as_ref: the bytes of the hash, here the one byte that tells the
\* `work` values apart
HashBytes(w) == <<w>>

RECURSIVE SumFrom(_, _)
SumFrom(s, i) == IF i > Len(s) THEN 0 ELSE s[i] + SumFrom(s, i + 1)
SumBytes(s) == SumFrom(s, 1)

\* Outputs of blake2_256 the model distinguishes, as 32 bytes in output
\* order: 0; 2^256 - 1; 2^231 - 1; 2^231 (read little-endian).
Digests ==
    << [i \in 1 .. 32 |-> 0],
       [i \in 1 .. 32 |-> 255],
       [i \in 1 .. 32 |-> IF i <= 28 THEN 255 ELSE IF i = 29 THEN 127 ELSE 0],
       [i \in 1 .. 32 |-> IF i = 29 THEN 128 ELSE 0] >>

\* blake2_256: a fixed function of the input bytes; each input byte moves
\* the output through the table
blake2_256(input) == Digests[(SumBytes(input) % Len(Digests)) + 1]

\* U256FromLittleEndian reading the first byte as the most significant digit
U256FromLittleEndian_BigEndian(bytes) == bytes

\* U256 values are 32 base-256 digits, most significant first.
\* U256::from_little_endian: the first byte is the least significant digit
U256FromLittleEndian(bytes) == [i \in 1 .. 32 |-> bytes[33 - i]]
\* U256::one() << s, for s < 256
U256OneShl(s) ==
    [i \in 1 .. 32 |-> IF i = 32 - (s \div 8) THEN Pow2(s % 8) ELSE 0]
U256One == [i \in 1 .. 32 |-> IF i = 32 THEN 1 ELSE 0]
\* a < b on U256: decided by the most significant digit that differs
RECURSIVE U256LessFrom(_, _, _)
U256LessFrom(a, b, i) ==
    IF i > 32 THEN FALSE
    ELSE IF a[i] = b[i] THEN U256LessFrom(a, b, i + 1)
    ELSE a[i] < b[i]
U256Less(a, b) == U256LessFrom(a, b, 1)

\* lib.rs verify_pow
verify_pow(who, nonce, difficulty, work) ==
    LET input == EncodeAccount(who) \o EncodeU32(nonce)
                 \o EncodeU32(difficulty) \o HashBytes(work)
        hash == blake2_256(input)
        hash_value == U256FromLittleEndian(hash)
        target == IF difficulty < 256 THEN U256OneShl(256 - difficulty)
                  ELSE U256One
    IN  U256Less(hash_value, target)

(***************************************************************************)
(* State.                                                                  *)
(***************************************************************************)
VARIABLES
    Score,              \* lib.rs:56  StorageMap AccountId -> ScoreState
    LotteryEntries,     \* lib.rs:60  the keys of the StorageMap AccountId -> ()
    LotteryEntryCount,  \* lib.rs:64  StorageValue u32
    LotteryRandomness,  \* lib.rs:68  StorageValue Option<H256>
    Account,            \* frame_system::Account: the nonce of each account
    events,             \* the events deposited by the latest step
    cur,                \* the extrinsic being applied and its position
    last,               \* the latest step and what it returned
    roundEntrants,      \* history: accounts accepted since the count was last put to 0
    roundAccepted,      \* history: entries accepted since the count was last put to 0
    lastPowNonce        \* history: the nonce each account's latest verify_pow was given

vars == <<Score, LotteryEntries, LotteryEntryCount, LotteryRandomness, Account,
          events, cur, last, roundEntrants, roundAccepted, lastPowNonce>>

\* lib.rs:41  enum ScoreState
Enabled(points) == <<"Enabled", points>>
Disabled == <<"Disabled">>
IsEnabled(score_state) == score_state[1] = "Enabled"

\* Option<H256>
NoRandomness == <<"None">>
SomeRandomness(bytes) == <<"Some", bytes>>

\* lib.rs:73  enum Event
SolutionAccepted(who, difficulty, new_score) ==
    <<"SolutionAccepted", who, difficulty, new_score>>
Withdrawn(who, points) == <<"Withdrawn", who, points>>
LotteryEntryAdded(who, entry_number) == <<"LotteryEntryAdded", who, entry_number>>
LotteryWinnerSelected(who, points_awarded) ==
    <<"LotteryWinnerSelected", who, points_awarded>>

\* check_nonce.rs:75  enum Val
ValCheckNonce(who, nonce) == <<"CheckNonce", who, nonce>>
ValRefund == <<"Refund">>
NoVal == <<"NoVal">>
\* check_nonce.rs:85  enum Pre
PreNonceChecked == "NonceChecked"
PreRefund == "Refund"

\* ValidTransaction
Validity(requires, provides) ==
    [priority |-> 0, requires |-> requires, provides |-> provides,
     longevity |-> "max_value", propagate |-> TRUE]
\* DefaultValidity providing a tag for the missing signer
DefaultValidity_Tagged ==
    [priority |-> 0, requires |-> <<>>, provides |-> << <<NoSigner, 0>> >>,
     longevity |-> "max_value", propagate |-> TRUE]

\* ValidTransaction::default()
DefaultValidity ==
    [priority |-> 0, requires |-> <<>>, provides |-> <<>>,
     longevity |-> "max_value", propagate |-> TRUE]

NoExtrinsic ==
    [pc |-> "idle", who |-> NoSigner, nonce |-> 0, call |-> "none",
     difficulty |-> 0, work |-> 0, val |-> NoVal, pre |-> None]

\* what a step leaves in `last`: the operation, its origin, its result, and
\* (when the step has them) the nonce, difficulty and work the extrinsic
\* carries, the validity validate returned, the nonce handed to verify_pow,
\* the number of winner selections and the winner
Step(op, who, res) ==
    [op |-> op, who |-> who, res |-> res, supplied |-> 0, difficulty |-> 0,
     work |-> 0, validity |-> DefaultValidity, read |-> -1, selections |-> 0,
     winner |-> NoSigner]

(***************************************************************************)
(* CheckNonce (runtime/src/check_nonce.rs).                                *)
(***************************************************************************)
\* check_nonce.rs:126  self.0.saturating_sub(One::one())
saturating_sub_one(n) == IF n = 0 THEN 0 ELSE n - 1

\* Requires naming the tag of the nonce before, whatever the stored nonce
Requires_Always(who, supplied, stored) ==
    << <<who, saturating_sub_one(supplied)>> >>

\* check_nonce.rs:125-129  the tags the extrinsic requires
Requires(who, supplied, stored) ==
    IF stored < supplied THEN << <<who, saturating_sub_one(supplied)>> >> ELSE <<>>

\* check_nonce.rs:120  the extrinsic's nonce is in the past
IsStale(supplied, stored) == supplied < stored

\* check_nonce.rs:106-144  validate: reads the account, writes nothing
validate(origin, supplied) ==
    IF origin = NoSigner
    THEN [res |-> "Ok", validity |-> DefaultValidity, val |-> ValRefund, stored |-> 0]
    ELSE LET nonce == Account[origin]
         IN  IF IsStale(supplied, nonce)
             THEN [res |-> "Stale", validity |-> DefaultValidity, val |-> NoVal,
                   stored |-> nonce]
             ELSE [res |-> "Ok",
                   validity |-> Validity(Requires(origin, supplied, nonce),
                                         << <<origin, supplied>> >>),
                   val |-> ValCheckNonce(origin, nonce),
                   stored |-> nonce]

\* IsFuture without the check of line 160
IsFuture_Never(supplied, nonce) == FALSE

\* check_nonce.rs:160  the extrinsic's nonce is ahead of the account's
IsFuture(supplied, nonce) == supplied > nonce

\* NextNonce advancing by two
NextNonce_SkipOne(nonce) == nonce + 2
\* NextNonce storing the nonce it was given
NextNonce_Unchanged(nonce) == nonce

\* check_nonce.rs:163  nonce += T::Nonce::one()
NextNonce(nonce) == nonce + 1

\* check_nonce.rs:146-166  prepare: the account's nonces after it, and its result
prepare(supplied, val) ==
    IF val[1] = "Refund"
    THEN [res |-> "Ok", pre |-> PreRefund, Account |-> Account]
    ELSE LET who == val[2]
             nonce == val[3]
         IN  IF IsFuture(supplied, nonce)
             THEN [res |-> "Future", pre |-> None, Account |-> Account]
             ELSE [res |-> "Ok", pre |-> PreNonceChecked,
                   Account |-> [Account EXCEPT ![who] = NextNonce(nonce)]]

\* check_nonce.rs:168-179  post_dispatch_details: the weight to refund
post_dispatch_details(pre) == IF pre = PreNonceChecked THEN "zero" ELSE "refund"

(***************************************************************************)
(* The pallet's calls (pallets/ctf/src/lib.rs).  Each gives the storage    *)
(* after the call, the events it deposits and what it returns; `read` is   *)
(* the account nonce it handed to verify_pow, or -1 when it read none;     *)
(* `sys` is frame_system's nonce of each account when the call runs.       *)
(***************************************************************************)
Outcome(res, score, entries, count, evs, read) ==
    [res |-> res, Score |-> score, LotteryEntries |-> entries,
     LotteryEntryCount |-> count, events |-> evs, read |-> read]

\* Fails with the entry count written before the error is returned
Fails_CountBumped(error, read) ==
    Outcome(error, Score, LotteryEntries, LotteryEntryCount + 1, <<>>, read)

\* a call that returns an error: storage as it was, no event
Fails(error, read) ==
    Outcome(error, Score, LotteryEntries, LotteryEntryCount, <<>>, read)

\* ValidDifficulty with the lower end of the range off by one
ValidDifficulty_FromNineteen(difficulty) ==
    difficulty >= MinDifficulty - 1 /\ difficulty <= MaxDifficulty

\* lib.rs:148-151  the difficulties submit_solution accepts
ValidDifficulty(difficulty) ==
    difficulty >= MinDifficulty /\ difficulty <= MaxDifficulty

\* lib.rs:173  let added = 1u64 << (difficulty - 20)
Award(difficulty) == Shl1U64(difficulty - MinDifficulty)

\* lib.rs:173  the shift of the award panics: the build checks overflow and
\* difficulty - 20 is the width of u64 or more
AwardPanics(overflow_checks, difficulty) ==
    overflow_checks /\ ShlOverflows(difficulty - MinDifficulty)

\* lib.rs:139-187; `overflow_checks` tells whether the build panics on an
\* overflowing shift or wraps the shift amount.  A panic ends the call
\* with the storage as it was and no event.
submit_solution(sys, origin, difficulty, work, overflow_checks) ==
    IF origin = NoSigner THEN Fails("BadOrigin", -1)
    ELSE IF ~ValidDifficulty(difficulty) THEN Fails("InvalidDifficulty", -1)
    ELSE LET score_state == Score[origin]
         IN  IF score_state = Disabled THEN Fails("ScoreDisabled", -1)
             ELSE LET tx_nonce == sys[origin]
                      is_valid == verify_pow(origin, tx_nonce, difficulty, work)
                      points == saturating_add(
                                    IF IsEnabled(score_state) THEN score_state[2]
                                    ELSE U64(0),
                                    Award(difficulty))
                  IN  IF ~is_valid THEN Fails("BadProof", tx_nonce)
                      ELSE IF AwardPanics(overflow_checks, difficulty)
                      THEN Fails("Panic", tx_nonce)
                      ELSE Outcome("Ok",
                                   [Score EXCEPT ![origin] = Enabled(points)],
                                   LotteryEntries, LotteryEntryCount,
                                   <<SolutionAccepted(origin, difficulty, points)>>,
                                   tx_nonce)

\* WithdrawnPoints reporting the points of the state just stored
WithdrawnPoints_AfterInsert(score_state) == U64(0)

\* lib.rs:202-207  the points the Withdrawn event reports
WithdrawnPoints(score_state) == score_state[2]

\* lib.rs:192-212
withdraw(origin) ==
    IF origin = NoSigner THEN Fails("BadOrigin", -1)
    ELSE LET score_state == Score[origin]
         IN  IF score_state = Disabled THEN Fails("AlreadyWithdrawn", -1)
             ELSE Outcome("Ok",
                          [Score EXCEPT ![origin] = Disabled],
                          LotteryEntries, LotteryEntryCount,
                          <<Withdrawn(origin, WithdrawnPoints(score_state))>>,
                          -1)

\* lib.rs:261  entry_count.saturating_add(1) on u32; the count stays far
\* below u32::MAX in the model
NewEntryCount(entry_count) == entry_count + 1

\* EntryNumber reporting the count after the increment
EntryNumber_NewCount(entry_count) == entry_count + 1

\* lib.rs:267  the number the event reports
EntryNumber(entry_count) == entry_count

\* lib.rs:248-270
add_lottery_entry(who, read) ==
    LET entry_count == LotteryEntryCount
    IN  IF who \in LotteryEntries THEN Fails("LotteryEntryFailed", read)
        ELSE Outcome("Ok", Score,
                     LotteryEntries \cup {who},
                     NewEntryCount(entry_count),
                     <<LotteryEntryAdded(who, EntryNumber(entry_count))>>,
                     read)

\* lib.rs:217-243
enter_lottery(sys, origin, work) ==
    IF origin = NoSigner THEN Fails("BadOrigin", -1)
    ELSE LET score_state == Score[origin]
         IN  IF score_state = Disabled THEN Fails("ScoreDisabled", -1)
             ELSE LET difficulty == LotteryDifficulty
                      tx_nonce == sys[origin]
                      is_valid == verify_pow(origin, tx_nonce, difficulty, work)
                  IN  IF ~is_valid THEN Fails("BadProof", tx_nonce)
                      ELSE add_lottery_entry(origin, tx_nonce)

(***************************************************************************)
(* Winner selection and the block hook.                                    *)
(***************************************************************************)
\* lib.rs:283-289  u32::from_be_bytes of the first four bytes, modulo the
\* entry count (reduced byte by byte: the same number)
RandNumberMod(rand_bytes, entry_count) ==
    LET r1 == rand_bytes[1] % entry_count
        r2 == (r1 * 256 + rand_bytes[2]) % entry_count
        r3 == (r2 * 256 + rand_bytes[3]) % entry_count
    IN  (r3 * 256 + rand_bytes[4]) % entry_count

\* lib.rs:279-291
WinnerIndex(randomness, entry_count) ==
    IF randomness = NoRandomness THEN 0
    ELSE RandNumberMod(randomness[2], entry_count)

\* StorageMap::iter: the keys come in the order of their storage keys; the
\* accounts are numbered in that order.  The key after `prev`, 0 at the end.
RECURSIVE NextKey(_, _)
NextKey(prev, entries) ==
    IF prev >= NumIds THEN 0
    ELSE IF prev + 1 \in entries THEN prev + 1
    ELSE NextKey(prev + 1, entries)

\* AfterVisit removing the winner's entry too
AfterVisit_RemovesAll(i, winner_index, entry, entries) == entries \ {entry}

\* lib.rs:298-302  the entries after the loop has visited `entry` at index i
AfterVisit(i, winner_index, entry, entries) ==
    IF i = winner_index THEN entries ELSE entries \ {entry}

\* lib.rs:296-304  the loop `for i in 0..entry_count`, from iteration i on;
\* once iter.next() is None it stays None, and the iterations left do nothing
RECURSIVE Scan(_, _, _, _, _, _)
Scan(i, entry_count, winner_index, prev, entries, winner) ==
    IF i >= entry_count THEN [entries |-> entries, winner |-> winner]
    ELSE LET entry == NextKey(prev, entries)
         IN  IF entry = 0
             THEN [entries |-> entries, winner |-> winner]
             ELSE Scan(i + 1, entry_count, winner_index, entry,
                       AfterVisit(i, winner_index, entry, entries),
                       IF i = winner_index THEN entry ELSE winner)

\* PointsToAward multiplying by the shift amount
PointsToAward_TimesFive == U64(25 * 5)

\* lib.rs:307  25u64 * (1 << 5)
PointsToAward == U64(25 * Pow2(5))

\* CurrentPoints as `match score_state { Enabled(pts) => pts, _ => 0 }`, the
\* match submit_solution uses (lib.rs:168-171)
CurrentPoints_DisabledAsZero(score_state) ==
    <<"Ok", IF IsEnabled(score_state) THEN score_state[2] ELSE U64(0)>>

\* lib.rs:311-314  the winner's points, or the error that ends the selection
CurrentPoints(score_state) ==
    IF IsEnabled(score_state) THEN <<"Ok", score_state[2]>>
    ELSE <<"Err", "AlreadyWithdrawn">>

\* lib.rs:273-330, reading the randomness on_initialize has just stored
select_lottery_winner(randomness) ==
    LET entry_count == LotteryEntryCount
        winner_index == WinnerIndex(randomness, entry_count)
        scan == Scan(0, entry_count, winner_index, 0, LotteryEntries, 0)
        winner == scan.winner
    IN  IF winner # 0
        THEN LET score_state == Score[winner]
                 current_points == CurrentPoints(score_state)
             IN  IF current_points[1] = "Err"
                 THEN [res |-> current_points[2], Score |-> Score,
                       LotteryEntries |-> scan.entries,
                       LotteryEntryCount |-> LotteryEntryCount,
                       events |-> <<>>, winner |-> winner, reset |-> FALSE]
                 ELSE LET new_points ==
                              saturating_add(current_points[2], PointsToAward)
                      IN  [res |-> "Ok",
                           Score |-> [Score EXCEPT ![winner] = Enabled(new_points)],
                           LotteryEntries |-> scan.entries,
                           LotteryEntryCount |-> 0,
                           events |-> <<LotteryWinnerSelected(winner, PointsToAward)>>,
                           winner |-> winner, reset |-> TRUE]
        ELSE [res |-> "Ok", Score |-> Score, LotteryEntries |-> scan.entries,
              LotteryEntryCount |-> 0, events |-> <<>>, winner |-> winner,
              reset |-> TRUE]

\* NewRandomness seeding the randomness from the block number when unset
NewRandomness_Seeded(current_randomness, n) ==
    IF current_randomness = NoRandomness
    THEN SomeRandomness(blake2_256(EncodeU32(n)))
    ELSE SomeRandomness(blake2_256(current_randomness[2] \o EncodeU32(n)))

\* lib.rs:114-124  the randomness on_initialize stores
NewRandomness(current_randomness, n) ==
    IF current_randomness = NoRandomness THEN NoRandomness
    ELSE SomeRandomness(blake2_256(current_randomness[2] \o EncodeU32(n)))

\* lib.rs:126  the hook selects a winner
ThresholdReached(entry_count) == entry_count >= LotteryThreshold

(***************************************************************************)
(* The extrinsics the model submits.                                       *)
(***************************************************************************)
Extrinsic(who, nonce, call, difficulty, work) ==
    [who |-> who, nonce |-> nonce, call |-> call, difficulty |-> difficulty,
     work |-> work]

\* every call with every input, signed with the account's nonce; and one
\* extrinsic signed with the nonce before it and one with the nonce after it
\* (validate and prepare do not look at the call)
SignedExtrinsics(who) ==
    LET n == Account[who]
    IN  (IF n < MaxNonce
         THEN {Extrinsic(who, n, "submit_solution", d, w) :
                  d \in Difficulties, w \in Works}
              \cup {Extrinsic(who, n, "withdraw", 0, 0)}
              \cup {Extrinsic(who, n, "enter_lottery", 0, w) : w \in Works}
         ELSE {})
        \cup {Extrinsic(who, m, "withdraw", 0, 0) :
                 m \in {k \in {n - 1, n + 1} : k >= 0 /\ k <= MaxNonce}}

PlayerExtrinsics == UNION {SignedExtrinsics(who) : who \in Players}

\* the fillers enter the lottery in the order of their numbers, each with its
\* account's nonce and a proof that is valid once prepare has advanced it
FillerExtrinsics ==
    LET waiting == {f \in Fillers : f \notin LotteryEntries}
    IN  IF waiting = {} THEN {}
        ELSE LET f == CHOOSE x \in waiting : \A y \in waiting : x <= y
             IN  {Extrinsic(f, Account[f], "enter_lottery", 0, w) :
                     w \in {x \in Works :
                               /\ Account[f] < MaxNonce
                               /\ verify_pow(f, Account[f] + 1, LotteryDifficulty, x)}}

\* an extrinsic whose origin has no signer
UnsignedExtrinsics == {Extrinsic(NoSigner, 0, "withdraw", 0, 0)}

Extrinsics == PlayerExtrinsics \cup FillerExtrinsics \cup UnsignedExtrinsics

\* the extrinsics of the nonce specification
SignerExtrinsics ==
    UNION {SignedExtrinsics(who) : who \in Signers} \cup UnsignedExtrinsics

(***************************************************************************)
(* Initial state: empty storage (ValueQuery defaults), nothing in flight.  *)
(***************************************************************************)
Init ==
    /\ Score = [a \in Ids |-> Enabled(U64(0))]
    /\ LotteryEntries = {}
    /\ LotteryEntryCount = 0
    /\ LotteryRandomness = NoRandomness
    /\ Account = [a \in Ids |-> 0]
    /\ events = <<>>
    /\ cur = NoExtrinsic
    /\ last = Step("genesis", NoSigner, "Ok")
    /\ roundEntrants = {}
    /\ roundAccepted = 0
    /\ lastPowNonce = [a \in Ids |-> -1]

storage == <<Score, LotteryEntries, LotteryEntryCount, LotteryRandomness>>

(***************************************************************************)
(* Steps.                                                                  *)
(***************************************************************************)
\* the call of an extrinsic, run with the system nonces `sys` by a build
\* with or without overflow checks
Dispatched(sys, xt, overflow_checks) ==
    CASE xt.call = "submit_solution" ->
             submit_solution(sys, xt.who, xt.difficulty, xt.work, overflow_checks)
      [] xt.call = "withdraw" -> withdraw(xt.who)
      [] xt.call = "enter_lottery" -> enter_lottery(sys, xt.who, xt.work)

\* what a dispatched call leaves: the storage, the events and the history
Commit(xt, out) ==
    LET accepted == xt.call = "enter_lottery" /\ out.res = "Ok"
    IN  /\ Score' = out.Score
        /\ LotteryEntries' = out.LotteryEntries
        /\ LotteryEntryCount' = out.LotteryEntryCount
        /\ events' = out.events
        /\ last' = [Step(xt.call, xt.who, out.res) EXCEPT
                       !.supplied = xt.nonce, !.difficulty = xt.difficulty,
                       !.work = xt.work, !.read = out.read]
        /\ lastPowNonce' = IF out.read = -1 THEN lastPowNonce
                           ELSE [lastPowNonce EXCEPT ![xt.who] = out.read]
        /\ roundEntrants' = IF accepted THEN roundEntrants \cup {xt.who}
                            ELSE roundEntrants
        /\ roundAccepted' = IF accepted THEN roundAccepted + 1
                            ELSE roundAccepted
        /\ UNCHANGED LotteryRandomness

\* An extrinsic is applied: validate, prepare, the call, post_dispatch_details,
\* with nothing in between.
apply_extrinsic(xt, overflow_checks) ==
    /\ cur.pc = "idle"
    /\ LET v == validate(xt.who, xt.nonce)
           p == prepare(xt.nonce, v.val)
       IN  IF v.res # "Ok"
           THEN /\ last' = [Step("validate", xt.who, v.res) EXCEPT
                               !.supplied = xt.nonce]
                /\ events' = <<>>
                /\ UNCHANGED <<storage, Account, roundEntrants, roundAccepted, lastPowNonce>>
           ELSE IF p.res # "Ok"
           THEN /\ last' = [Step("prepare", xt.who, p.res) EXCEPT
                               !.supplied = xt.nonce]
                /\ events' = <<>>
                /\ UNCHANGED <<storage, Account, roundEntrants, roundAccepted, lastPowNonce>>
           ELSE /\ Account' = p.Account
                /\ Commit(xt, Dispatched(p.Account, xt, overflow_checks))
    /\ UNCHANGED cur

\* The transaction pool validates a pending extrinsic of `who` that carries
\* the nonce `supplied`; the Val is dropped.
ValidateOnly(who, supplied) ==
    LET r == validate(who, supplied)
    IN  /\ last' = [Step("validate_only", who, r.res) EXCEPT
                       !.supplied = supplied, !.validity = r.validity]
        /\ events' = <<>>
        /\ UNCHANGED <<storage, Account, cur, roundEntrants, roundAccepted,
                      lastPowNonce>>

\* The executive starts applying an extrinsic: validate.
ValidateStep(xt) ==
    /\ cur.pc = "idle"
    /\ LET r == validate(xt.who, xt.nonce)
       IN  /\ cur' = IF r.res = "Ok"
                     THEN [pc |-> "validated", who |-> xt.who, nonce |-> xt.nonce,
                           call |-> xt.call, difficulty |-> xt.difficulty,
                           work |-> xt.work, val |-> r.val, pre |-> None]
                     ELSE NoExtrinsic
           /\ last' = [Step("validate", xt.who, r.res) EXCEPT
                          !.supplied = xt.nonce, !.validity = r.validity]
    /\ events' = <<>>
    /\ UNCHANGED <<storage, Account, roundEntrants, roundAccepted, lastPowNonce>>

\* prepare, with the Val validate returned.
PrepareStep ==
    /\ cur.pc = "validated"
    /\ LET r == prepare(cur.nonce, cur.val)
       IN  /\ Account' = r.Account
           /\ cur' = IF r.res = "Ok"
                     THEN [cur EXCEPT !.pc = "prepared", !.pre = r.pre]
                     ELSE NoExtrinsic
           /\ last' = [Step("prepare", cur.who, r.res) EXCEPT
                          !.supplied = cur.nonce]
    /\ events' = <<>>
    /\ UNCHANGED <<storage, roundEntrants, roundAccepted, lastPowNonce>>

\* The call is dispatched.
DispatchStep(overflow_checks) ==
    /\ cur.pc = "prepared"
    /\ Commit(cur, Dispatched(Account, cur, overflow_checks))
    /\ cur' = [cur EXCEPT !.pc = "dispatched"]
    /\ UNCHANGED Account

\* post_dispatch_details ends the extrinsic.
PostDispatchStep ==
    /\ cur.pc = "dispatched"
    /\ last' = Step("post_dispatch_details", cur.who, post_dispatch_details(cur.pre))
    /\ cur' = NoExtrinsic
    /\ events' = <<>>
    /\ UNCHANGED <<storage, Account, roundEntrants, roundAccepted, lastPowNonce>>

\* lib.rs:113-131  the hook at the start of block n, between extrinsics
on_initialize(n) ==
    /\ cur.pc = "idle"
    /\ LET new_randomness == NewRandomness(LotteryRandomness, n)
       IN  /\ LotteryRandomness' = new_randomness
           /\ IF ThresholdReached(LotteryEntryCount)
              THEN LET sel == select_lottery_winner(new_randomness)
                   IN  /\ Score' = sel.Score
                       /\ LotteryEntries' = sel.LotteryEntries
                       /\ LotteryEntryCount' = sel.LotteryEntryCount
                       /\ events' = sel.events
                       /\ last' = [Step("on_initialize", NoSigner, sel.res) EXCEPT
                                      !.selections = 1, !.winner = sel.winner]
                       /\ roundEntrants' = IF sel.reset THEN {} ELSE roundEntrants
                       /\ roundAccepted' = IF sel.reset THEN 0 ELSE roundAccepted
              ELSE /\ UNCHANGED <<Score, LotteryEntries, LotteryEntryCount,
                                  roundEntrants, roundAccepted>>
                   /\ events' = <<>>
                   /\ last' = Step("on_initialize", NoSigner, "Ok")
    /\ UNCHANGED <<Account, cur, lastPowNonce>>

(***************************************************************************)
(* Spec: whole extrinsics and block hooks, in the order of the chain.      *)
(***************************************************************************)
Next ==
    \/ \E xt \in Extrinsics, overflow_checks \in BOOLEAN :
           apply_extrinsic(xt, overflow_checks)
    \/ \E n \in BlockNumbers : on_initialize(n)

Spec == Init /\ [][Next]_vars

(***************************************************************************)
(* NonceSpec: the steps of each extrinsic of two signers, with the pool's  *)
(* validations of pending extrinsics between them.                         *)
(***************************************************************************)
NonceNext ==
    \/ \E pending \in {<<xt.who, xt.nonce>> : xt \in SignerExtrinsics} :
           ValidateOnly(pending[1], pending[2])
    \/ \E xt \in SignerExtrinsics : ValidateStep(xt)
    \/ PrepareStep
    \/ \E overflow_checks \in BOOLEAN : DispatchStep(overflow_checks)
    \/ PostDispatchStep
    \/ \E n \in BlockNumbers : on_initialize(n)

NonceSpec == Init /\ [][NonceNext]_vars

(***************************************************************************)
(* PowSpec: verify_pow applied to every input of the bounded sets.  It     *)
(* reads no storage and writes none; `last` records the input and the      *)
(* verdict.                                                                *)
(***************************************************************************)
\* difficulties handed to verify_pow: the lower end of the accepted range,
\* the lottery's, and the two highest
PowDifficulties == {MinDifficulty, LotteryDifficulty, MaxDifficulty - 1, MaxDifficulty}

VerifyPow(who, nonce, difficulty, work) ==
    /\ last' = [Step("verify_pow", who,
                     IF verify_pow(who, nonce, difficulty, work)
                     THEN "true" ELSE "false") EXCEPT
                    !.read = nonce, !.difficulty = difficulty, !.work = work]
    /\ UNCHANGED <<storage, Account, events, cur, roundEntrants, roundAccepted,
                   lastPowNonce>>

PowNext ==
    \E who \in Ids, nonce \in 0 .. MaxNonce, difficulty \in PowDifficulties,
       work \in Works : VerifyPow(who, nonce, difficulty, work)

PowSpec == Init /\ [][PowNext]_vars

(***************************************************************************)
(* Claims.                                                                 *)
(***************************************************************************)
\* C1: Disabled is terminal.  An account whose ScoreState is Disabled is
\* still Disabled after every step: an extrinsic of any account (submit_solution,
\* withdraw, enter_lottery) and every on_initialize, the ones that select
\* that account as the lottery winner included.
C1_DisabledIsTerminal ==
    [][\A a \in Ids : Score[a] = Disabled => Score'[a] = Disabled]_vars

\* C1 happens: a winner selection has picked an account that is Disabled.
C1_DisabledWinnerSelected ==
    /\ last.op = "on_initialize"
    /\ last.selections = 1
    /\ last.winner \in Ids
    /\ Score[last.winner] = Disabled

\* C2 as stated: once an account is Disabled (which only a successful
\* withdraw does), every submit_solution of that account, with any
\* difficulty and any work, fails with ScoreDisabled.
C2_SubmitAfterWithdrawIsScoreDisabled ==
    (last.op = "submit_solution" /\ last.who \in Ids /\ Score[last.who] = Disabled)
        => last.res = "ScoreDisabled"

\* C2 amended: once an account is Disabled, every submit_solution of that
\* account fails: with ScoreDisabled when the difficulty is in 20..=256, with
\* InvalidDifficulty when it is not (the range is checked first).
C2_SubmitAfterWithdrawFails ==
    (last.op = "submit_solution" /\ last.who \in Ids /\ Score[last.who] = Disabled)
        => last.res = IF last.difficulty >= 20 /\ last.difficulty <= 256
                      THEN "ScoreDisabled" ELSE "InvalidDifficulty"

\* C2 happens: a withdrawn account has submitted a solution and got ScoreDisabled.
C2_SubmittedAfterWithdraw ==
    /\ last.op = "submit_solution"
    /\ last.who \in Ids
    /\ Score[last.who] = Disabled
    /\ last.res = "ScoreDisabled"

\* C3: withdraw of an account whose state is Enabled(p) stores Disabled and
\* deposits Withdrawn with points = p; withdraw of an account whose state is
\* Disabled fails with AlreadyWithdrawn, deposits no event and leaves every
\* score as it was.
C3_Withdraw ==
    [][(last'.op = "withdraw" /\ last'.who \in Ids) =>
          LET who == last'.who
          IN  IF Score[who] = Disabled
              THEN /\ last'.res = "AlreadyWithdrawn"
                   /\ events' = <<>>
                   /\ Score' = Score
              ELSE /\ last'.res = "Ok"
                   /\ Score' = [Score EXCEPT ![who] = Disabled]
                   /\ events' = <<Withdrawn(who, Score[who][2])>>]_vars

\* C3 happens: an account with points has withdrawn them.
C3_WithdrewPoints ==
    /\ last.op = "withdraw"
    /\ last.res = "Ok"
    /\ Len(events) = 1
    /\ events[1][3] # U64(0)

C5_NonceGuardOutcomes ==
    [][/\ (last'.op \in {"validate", "validate_only"} /\ last'.who \in Ids) =>
              ((last'.res = "Stale") <=> (last'.supplied < Account[last'.who]))
       /\ (cur.pc = "validated" /\ cur'.pc # "validated" /\ cur.who \in Ids) =>
              /\ cur.nonce >= Account[cur.who]
              /\ cur.nonce = Account[cur.who] =>
                     /\ last'.op = "prepare" /\ last'.res = "Ok"
                     /\ Account' = [Account EXCEPT ![cur.who] = Account[cur.who] + 1]
              /\ cur.nonce > Account[cur.who] =>
                     /\ last'.op = "prepare" /\ last'.res = "Future"
                     /\ Account' = Account]_vars

\* C5 happens: an extrinsic whose nonce is ahead of the stored one has passed
\* validate and has been rejected by prepare as Future.
C5_RejectedAsFuture ==
    /\ last.op = "prepare"
    /\ last.res = "Future"
    /\ last.who \in Ids
    /\ last.supplied > Account[last.who]
    /\ cur.pc = "idle"

\* C6: replay protection.  The nonce a dispatched submit_solution or
\* enter_lottery reads from the account store for verify_pow is the stored
\* nonce as its own prepare left it, and it is greater than the nonce the
\* latest verify_pow of the same account was given; so no (account, nonce,
\* difficulty, work) is accepted twice.
C6_PowNonceIncreases ==
    [][(last'.op \in {"submit_solution", "enter_lottery"} /\ last'.read # -1) =>
          /\ last'.read = Account'[last'.who]
          /\ last'.read > lastPowNonce[last'.who]
          /\ lastPowNonce'[last'.who] = last'.read]_vars

\* C6 happens: an account has had a second solution accepted, under a
\* greater nonce than its first.
C6_SecondSolutionAccepted ==
    /\ last.op = "submit_solution"
    /\ last.res = "Ok"
    /\ last.read = 2
    /\ Score[last.who] = Enabled(U64(2))

\* C7 as stated: on every on_initialize that finds the entry count at 20 or
\* more, the winner selection runs exactly once and the entry count is 0
\* when the hook returns, whatever the selection returned; on every
\* on_initialize that finds it below 20, no selection runs.
C7_TickSelectsOnceAndResets ==
    [][last'.op = "on_initialize" =>
          IF LotteryEntryCount >= 20
          THEN last'.selections = 1 /\ LotteryEntryCount' = 0
          ELSE last'.selections = 0]_vars

\* C8 as stated: after every winner selection, in any round, the lottery
\* entries hold no account other than the selected winner.
C8_OnlyWinnerLeft ==
    (last.op = "on_initialize" /\ last.selections = 1)
        => LotteryEntries \subseteq {last.winner}

\* C9 as stated, for an account that has not withdrawn: an enter_lottery
\* with a valid proof by an account whose enter_lottery was accepted since
\* the entry count was last reset fails with LotteryEntryFailed and leaves the
\* entries and the entry count as they were.
C9_SecondEntryFails ==
    [][(/\ last'.op = "enter_lottery"
        /\ last'.who \in roundEntrants
        /\ IsEnabled(Score[last'.who])
        /\ verify_pow(last'.who, Account'[last'.who], LotteryDifficulty, last'.work))
       => /\ last'.res = "LotteryEntryFailed"
          /\ LotteryEntries' = LotteryEntries
          /\ LotteryEntryCount' = LotteryEntryCount]_vars

\* C10: the entry numbers LotteryEntryAdded reports are sequential: an
\* accepted enter_lottery reports the number of entries accepted since the
\* entry count was last reset (0 for the first one, the previous number + 1
\* for each later one); a rejected enter_lottery deposits no event and leaves
\* the entry count as it was, so it uses up no number.
C10_EntryNumbersSequential ==
    [][last'.op = "enter_lottery" =>
          IF last'.res = "Ok"
          THEN /\ events' = <<LotteryEntryAdded(last'.who, roundAccepted)>>
               /\ LotteryEntryCount' = LotteryEntryCount + 1
          ELSE /\ events' = <<>>
               /\ LotteryEntryCount' = LotteryEntryCount]_vars

\* C10 happens: after a winner selection that reset the count, an entry has
\* been accepted and was given the number 0 again.
C10_FirstEntryAfterReset ==
    /\ last.op = "enter_lottery"
    /\ last.res = "Ok"
    /\ events = <<LotteryEntryAdded(last.who, 0)>>
    /\ \E a \in Ids : Score[a] = Enabled(PointsToAward)

\* C11: a submit_solution, withdraw or enter_lottery that returns an error
\* leaves the scores, the lottery entries, the entry count and the randomness
\* exactly as they were before the call and deposits no event.
C11_FailedCallChangesNothing ==
    [][(/\ last'.op \in {"submit_solution", "withdraw", "enter_lottery"}
        /\ last'.res \notin {"Ok", "Panic"})
       => /\ Score' = Score
          /\ LotteryEntries' = LotteryEntries
          /\ LotteryEntryCount' = LotteryEntryCount
          /\ LotteryRandomness' = LotteryRandomness
          /\ events' = <<>>]_vars

\* C11 happens: a call has failed while there were points and entries to lose.
C11_FailedWithStateToLose ==
    /\ last.op = "submit_solution"
    /\ last.res = "BadProof"
    /\ Score[last.who] # Enabled(U64(0))
    /\ LotteryEntries # {}

\* C12: an origin without a signer bypasses CheckNonce: validate (by the
\* executive or by the pool) succeeds with empty requires and provides,
\* prepare after it succeeds, and validate, prepare and
\* post_dispatch_details of such an extrinsic leave every stored nonce as it
\* was.
C12_UnsignedBypasses ==
    [][/\ (last'.op \in {"validate", "validate_only"} /\ last'.who = NoSigner) =>
              /\ last'.res = "Ok"
              /\ last'.validity.requires = <<>>
              /\ last'.validity.provides = <<>>
              /\ Account' = Account
       /\ (cur.who = NoSigner /\ cur.pc = "validated" /\ cur'.pc # "validated") =>
              /\ last'.op = "prepare" /\ last'.res = "Ok"
              /\ cur'.pc = "prepared"
              /\ Account' = Account
       /\ (cur.who = NoSigner /\ cur.pc = "dispatched" /\ cur'.pc # "dispatched") =>
              /\ last'.op = "post_dispatch_details"
              /\ Account' = Account]_vars

\* C12 happens: an extrinsic without a signer has gone through validate,
\* prepare, its call and post_dispatch_details.
C12_UnsignedWentThrough ==
    /\ last.op = "post_dispatch_details"
    /\ last.who = NoSigner
    /\ last.res = "refund"
    /\ cur.pc = "idle"

\* C13 as stated: when the winner selection fails with AlreadyWithdrawn, the
\* lottery entries, the entry count and every score are the same after the
\* on_initialize as before it.
C13_FailedSelectionChangesNothing ==
    [][(last'.op = "on_initialize" /\ last'.res = "AlreadyWithdrawn")
       => /\ LotteryEntries' = LotteryEntries
          /\ LotteryEntryCount' = LotteryEntryCount
          /\ Score' = Score]_vars

\* C14 as stated: an accepted submit_solution of difficulty d adds an award
\* greater than the award of every accepted difficulty 20 <= d1 < d, and
\* stores min(2^64 - 1, old points + award).
C14_AwardStrictlyIncreasing ==
    [][(last'.op = "submit_solution" /\ last'.res = "Ok")
       => /\ \A d1 \in MinDifficulty .. (last'.difficulty - 1) :
                 U64Less(Award(d1), Award(last'.difficulty))
          /\ Score'[last'.who] =
                 Enabled(saturating_add(Score[last'.who][2],
                                        Award(last'.difficulty)))]_vars

\* C15: a winner selection changes at most one score.  When the winner is
\* Enabled(p) the selection succeeds, the winner's score becomes
\* Enabled(min(2^64 - 1, p + 800)) and no other score changes; when the
\* winner is Disabled the selection fails with AlreadyWithdrawn and no score
\* changes.
C15_SelectionChangesOneScore ==
    [][(last'.op = "on_initialize" /\ last'.selections = 1)
       => LET w == last'.winner
          IN  IF w = NoSigner THEN Score' = Score
              ELSE IF IsEnabled(Score[w])
              THEN /\ last'.res = "Ok"
                   /\ Score' = [Score EXCEPT
                                   ![w] = Enabled(saturating_add(Score[w][2],
                                                                 U64(800)))]
              ELSE /\ last'.res = "AlreadyWithdrawn"
                   /\ Score' = Score]_vars

\* C15 happens: a selection has given the bonus to an account that already
\* had the bonus of an earlier round.
C15_BonusAwardedTwice ==
    /\ last.op = "on_initialize"
    /\ last.selections = 1
    /\ last.res = "Ok"
    /\ last.winner \in Ids
    /\ Score[last.winner] = Enabled(U64(1600))

\* C16: LotteryRandomness is unset in every reachable state, and every
\* winner selection picks the entry that is first in iteration order among
\* the entries stored when it starts (winner_index = 0).
C16_RandomnessUnsetWinnerFirst ==
    [][/\ LotteryRandomness = NoRandomness
       /\ LotteryRandomness' = NoRandomness
       /\ (last'.op = "on_initialize" /\ last'.selections = 1) =>
              /\ last'.winner \in LotteryEntries
              /\ \A e \in LotteryEntries : last'.winner <= e]_vars

\* C16 happens: a selection over twenty entries has picked the first of them.
C16_FirstOfTwentySelected ==
    /\ last.op = "on_initialize"
    /\ last.selections = 1
    /\ last.res = "Ok"
    /\ last.winner = 2
    /\ LotteryEntries = {2}
    /\ LotteryRandomness = NoRandomness

C18_CountIsNumberOfEntries ==
    LotteryEntryCount = Cardinality(LotteryEntries)

\* C19 as stated: every account a winner selection rewards with the bonus
\* had an enter_lottery accepted since the entry count was last reset.
C19_WinnerEnteredThisRound ==
    [][(/\ last'.op = "on_initialize" /\ last'.selections = 1
        /\ last'.res = "Ok" /\ last'.winner \in Ids)
       => last'.winner \in roundEntrants]_vars

\* C20: when validate accepts a signed extrinsic, the validity it returns
\* has priority 0, provides exactly the tag (who, supplied nonce), and
\* requires the tag (who, supplied nonce - 1) exactly when the supplied nonce
\* is above the stored one (nothing when they are equal); the Val handed to
\* prepare holds the stored nonce validate read.
C20_ValidityTags ==
    /\ (last.op \in {"validate", "validate_only"} /\ last.who \in Ids
        /\ last.res = "Ok") =>
           /\ last.validity.priority = 0
           /\ last.validity.provides = << <<last.who, last.supplied>> >>
           /\ last.validity.requires =
                  IF last.supplied > Account[last.who]
                  THEN << <<last.who, last.supplied - 1>> >>
                  ELSE <<>>
    /\ (cur.pc = "validated" /\ cur.who \in Ids) =>
           cur.val = <<"CheckNonce", cur.who, Account[cur.who]>>

\* C20 happens: validate has accepted an extrinsic whose nonce is ahead of
\* the stored one, and it waits for prepare.
C20_AcceptedAheadOfStored ==
    /\ last.op = "validate"
    /\ last.res = "Ok"
    /\ last.who \in Ids
    /\ last.supplied > Account[last.who]
    /\ Len(last.validity.requires) = 1
    /\ cur.pc = "validated"

\* C21: verify_pow is a function of its input alone: for the digest D of
\* (who, nonce, difficulty, work), read as a little-endian number, it accepts
\* exactly when D < 2^(256 - difficulty) if difficulty < 256 (every bit of D
\* from bit 256 - difficulty up is 0), and exactly when D = 0 if difficulty
\* is 256.
C21_VerifyPowAcceptsBelowTarget ==
    last.op = "verify_pow" =>
        LET D == blake2_256(EncodeAccount(last.who) \o EncodeU32(last.read)
                            \o EncodeU32(last.difficulty) \o HashBytes(last.work))
            k == 256 - last.difficulty
            below == \A j \in 1 .. 32 :
                        IF 8 * (j - 1) >= k THEN D[j] = 0
                        ELSE IF 8 * j > k THEN D[j] < 2 ^ (k - 8 * (j - 1))
                        ELSE TRUE
            zero == \A j \in 1 .. 32 : D[j] = 0
        IN  (last.res = "true") <=> (IF last.difficulty < 256 THEN below ELSE zero)

\* C21 happens: a proof of difficulty 256 has been accepted.
C21_AcceptedAtHighestDifficulty ==
    /\ last.op = "verify_pow"
    /\ last.difficulty = 256
    /\ last.res = "true"

====
